---------------------------- MODULE Spec2Model ----------------------------
(***************************************************************************)
(* Model of the observatory client: the DuckDB store (start / stop /       *)
(* loadData), the Home component that drives it, and the GridMap refresh   *)
(* effect that bins the points of arrow_table into a W x H grid of mixed,  *)
(* shaded colours.                                                         *)
(*                                                                         *)
(* Numbers.  Coordinates are small naturals (exactly representable as      *)
(* float32 and float64).  The three floating point computations of the     *)
(* code (the bin index, the palette mix, the density shade) are modelled   *)
(* with exact integer arithmetic.  For every input the bounds below allow  *)
(* (extent widths up to 6, cell totals up to 5) the integer formulas give  *)
(* the same result as IEEE-754 double evaluation of the source             *)
(* expressions, rounding with Math.round included.                         *)
(***************************************************************************)
EXTENDS Integers, Sequences, FiniteSets, TLC

(***************************************************************************)
(* Bounds of the model.                                                    *)
(***************************************************************************)
\* Grid resolution.  The component fixes W = H = 32; the model scales the
\* grid down and keeps every index computation in terms of W and H.
W == 2
H == 2
\* Coordinates umap_x, umap_y range over 0 .. MaxCoord.
MaxCoord == 2
\* cat_id ranges over 0 .. MaxCat (a Uint8 column in the source).
MaxCat == 4
\* Largest number of rows of arrow_table.
MaxPts == 3

(***************************************************************************)
(* Program constants.                                                      *)
(***************************************************************************)
PALETTE == << <<230, 57, 70>>, <<29, 53, 87>>, <<69, 123, 157>>, <<241, 196, 15>> >>
\* Number of per-category counters kept for one cell: counts[idx * 4 + cat].
Stride == 4

Coord == 0 .. MaxCoord
CatId == 0 .. MaxCat
Point == [x : Coord, y : Coord, cat : CatId]

\* The non-finite values a Float32 column can hold, placed where DuckDB's
\* total order on floats puts them: -Infinity below every number,
\* +Infinity above every number, NaN above +Infinity.  MIN and MAX follow
\* that order.
NegInf == 0 - 1
PosInf == MaxCoord + 1
NaN    == MaxCoord + 2
FloatCoord == Coord \cup {NegInf, PosInf, NaN}
FloatPoint == [x : FloatCoord, y : FloatCoord, cat : CatId]
IsFinite(v) == v \in Coord

\* The text `${v}` of an extent value that the binning query embeds is a
\* number of the SQL text for a finite v and for null ("null"); NaN,
\* Infinity and -Infinity are written as those words, which the query
\* takes for column names that arrow_table does not have.
ValidSql(b) ==
    b.null \/ (IsFinite(b.xmin) /\ IsFinite(b.xmax) /\ IsFinite(b.ymin) /\ IsFinite(b.ymax))

Min2(a, b) == IF a < b THEN a ELSE b
SetMin(S) == CHOOSE m \in S : \A n \in S : m <= n
SetMax(S) == CHOOSE m \in S : \A n \in S : n <= m

(***************************************************************************)
(* The extent query: MIN / MAX of umap_x, umap_y over arrow_table.  Over   *)
(* an empty table the four aggregates are NULL.                            *)
(***************************************************************************)
ExtentQuery(tbl) ==
    IF Len(tbl) = 0
    THEN [null |-> TRUE, xmin |-> 0, xmax |-> 0, ymin |-> 0, ymax |-> 0]
    ELSE [null |-> FALSE,
          xmin |-> SetMin({tbl[i].x : i \in DOMAIN tbl}),
          xmax |-> SetMax({tbl[i].x : i \in DOMAIN tbl}),
          ymin |-> SetMin({tbl[i].y : i \in DOMAIN tbl}),
          ymax |-> SetMax({tbl[i].y : i \in DOMAIN tbl})]

(***************************************************************************)
(* The binning query.                                                      *)
(***************************************************************************)
\* Mutant of BinIndex: the index clamped to the last bin, LEAST(n - 1, ...).
BinIndexClamped(v, lo, hi, n) == Min2(n - 1, ((v - lo) * n) \div (hi - lo))

\* CAST(FLOOR((v - lo) / NULLIF(hi - lo, 0) * n) AS INTEGER), for hi > lo.
BinIndex(v, lo, hi, n) == ((v - lo) * n) \div (hi - lo)

\* The WHERE clause of the CTE "binned"; a NULL extent makes it NULL (no row).
InExtent(p, b) ==
    /\ ~b.null
    /\ b.xmax > b.xmin /\ b.ymax > b.ymin
    /\ b.xmin <= p.x /\ p.x <= b.xmax
    /\ b.ymin <= p.y /\ p.y <= b.ymax

\* The WHERE clause of the CTE "agg".
InGrid(ix, iy) == ix >= 0 /\ ix <= W - 1 /\ iy >= 0 /\ iy <= H - 1

\* Mutant of Binned: no test of the extent's width and height, a width or
\* height of 0 replaced by 1 in the division.
BinnedZeroWidthAsOne(tbl, b) ==
    LET kept == SelectSeq(tbl, LAMBDA p :
                    /\ ~b.null
                    /\ b.xmin <= p.x /\ p.x <= b.xmax
                    /\ b.ymin <= p.y /\ p.y <= b.ymax)
        dx == IF b.xmax = b.xmin THEN 1 ELSE b.xmax - b.xmin
        dy == IF b.ymax = b.ymin THEN 1 ELSE b.ymax - b.ymin
    IN  [i \in DOMAIN kept |->
            [ix |-> ((kept[i].x - b.xmin) * W) \div dx,
             iy |-> ((kept[i].y - b.ymin) * H) \div dy,
             cat_id |-> kept[i].cat]]

\* The CTE "binned": the rows of arrow_table inside the extent, each with
\* its column, its row and its category.
Binned(tbl, b) ==
    LET kept == SelectSeq(tbl, LAMBDA p : InExtent(p, b))
    IN  [i \in DOMAIN kept |->
            [ix |-> BinIndex(kept[i].x, b.xmin, b.xmax, W),
             iy |-> BinIndex(kept[i].y, b.ymin, b.ymax, H),
             cat_id |-> kept[i].cat]]

\* The rows of "binned" that reach the GROUP BY of "agg".
InGridRows(binned) == SelectSeq(binned, LAMBDA r : InGrid(r.ix, r.iy))

\* COUNT(*) of the group (ix, iy, cat_id).
GroupCount(g, ix, iy, cat) ==
    Cardinality({i \in DOMAIN g : g[i] = [ix |-> ix, iy |-> iy, cat_id |-> cat]})

RECURSIVE SumCats(_, _, _, _)
SumCats(g, ix, iy, cat) ==
    IF cat < 0 THEN 0
    ELSE GroupCount(g, ix, iy, cat) + SumCats(g, ix, iy, cat - 1)

\* Mutant of NTotal: only the groups of the palette's categories are summed.
NTotalPaletteOnly(g, ix, iy) == SumCats(g, ix, iy, 3)

\* SUM(n) OVER (PARTITION BY ix, iy): every group of the cell, whatever its
\* category.
NTotal(g, ix, iy) == SumCats(g, ix, iy, MaxCat)

\* The result rows, ORDER BY iy, ix, cat_id: the k-th candidate key in that
\* order, kept when its group is not empty.
NKeys == W * H * (MaxCat + 1)

\* Mutant of KeyRow: the window ordered by cat_id, which makes n_total a
\* running total.
KeyRowRunningTotal(g, k) ==
    LET cat == (k - 1) % (MaxCat + 1)
        ix  == ((k - 1) \div (MaxCat + 1)) % W
        iy  == (k - 1) \div ((MaxCat + 1) * W)
    IN  [ix |-> ix, iy |-> iy, cat_id |-> cat,
         n |-> GroupCount(g, ix, iy, cat),
         n_total |-> SumCats(g, ix, iy, cat)]

KeyRow(g, k) ==
    LET cat == (k - 1) % (MaxCat + 1)
        ix  == ((k - 1) \div (MaxCat + 1)) % W
        iy  == (k - 1) \div ((MaxCat + 1) * W)
    IN  [ix |-> ix, iy |-> iy, cat_id |-> cat,
         n |-> GroupCount(g, ix, iy, cat),
         n_total |-> NTotal(g, ix, iy)]

RECURSIVE RowsFrom(_, _)
RowsFrom(g, k) ==
    IF k > NKeys THEN << >>
    ELSE IF GroupCount(g, ((k - 1) \div (MaxCat + 1)) % W,
                          (k - 1) \div ((MaxCat + 1) * W),
                          (k - 1) % (MaxCat + 1)) > 0
         THEN << KeyRow(g, k) >> \o RowsFrom(g, k + 1)
         ELSE RowsFrom(g, k + 1)

BinningQuery(tbl, b) ==
    LET g == InGridRows(Binned(tbl, b))
    IN  RowsFrom(g, 1)

(***************************************************************************)
(* The accumulation loop of GridMap over the result rows.                  *)
(***************************************************************************)
\* new Uint32Array(W * H), new Uint32Array(W * H * 4), maxTot = 0
EmptyAcc ==
    [totals |-> [i \in 1 .. W * H |-> 0],
     counts |-> [j \in 1 .. W * H * Stride |-> 0],
     maxTot |-> 0]

\* Mutant of CellIndex: the index taken column-major.
CellIndexColumnMajor(ix, iy) == ix * H + iy

\* idx = iy * W + ix
CellIndex(ix, iy) == iy * W + ix

\* Mutant of AccRow: the running maximum follows the row's own count n
\* instead of the cell total n_total.
AccRowMaxOfN(acc, r) ==
    LET idx == CellIndex(r.ix, r.iy)
        j   == idx * Stride + r.cat_id
    IN  [totals |-> [acc.totals EXCEPT ![idx + 1] = r.n_total],
         counts |-> IF j < W * H * Stride
                    THEN [acc.counts EXCEPT ![j + 1] = @ + r.n]
                    ELSE acc.counts,
         maxTot |-> IF r.n > acc.maxTot THEN r.n ELSE acc.maxTot]

\* One iteration of "for (const r of rows)".  A typed array ignores a store
\* past its end.
AccRow(acc, r) ==
    LET idx == CellIndex(r.ix, r.iy)
        j   == idx * Stride + r.cat_id
    IN  [totals |-> [acc.totals EXCEPT ![idx + 1] = r.n_total],
         counts |-> IF j < W * H * Stride
                    THEN [acc.counts EXCEPT ![j + 1] = @ + r.n]
                    ELSE acc.counts,
         maxTot |-> IF r.n_total > acc.maxTot THEN r.n_total ELSE acc.maxTot]

RECURSIVE AccPrefix(_, _)
\* The arrays after the first k rows.
AccPrefix(rows, k) ==
    IF k = 0 THEN EmptyAcc ELSE AccRow(AccPrefix(rows, k - 1), rows[k])

Accumulate(rows) == AccPrefix(rows, Len(rows))

(***************************************************************************)
(* Colour mixing and shading.                                              *)
(***************************************************************************)
\* Math.round of the non-negative rational num / den.
RoundDiv(num, den) == (2 * num + den) \div (2 * den)

RECURSIVE ISqrtIn(_, _, _)
\* The largest s in lo .. hi with s * s <= n (lo * lo <= n < (hi + 1)^2).
ISqrtIn(n, lo, hi) ==
    IF lo >= hi THEN lo
    ELSE LET mid == (lo + hi + 1) \div 2
         IN  IF mid * mid <= n THEN ISqrtIn(n, mid, hi)
                               ELSE ISqrtIn(n, lo, mid - 1)

\* mixSRGB: one channel ch of the weighted palette sum over the four
\* counters c, rounded.
MixChannel(c, total, ch) ==
    RoundDiv(PALETTE[1][ch] * c[1] + PALETTE[2][ch] * c[2]
             + PALETTE[3][ch] * c[3] + PALETTE[4][ch] * c[4], total)

mixSRGB(c, total) ==
    IF total = 0 THEN <<255, 255, 255>>
    ELSE << MixChannel(c, total, 1), MixChannel(c, total, 2), MixChannel(c, total, 3) >>

\* Math.round(m * (0.15 + 0.85 * Math.sqrt(tot / (maxTot || 1)))):
\* floor((3 m + 10 + sqrt(289 m^2 tot / mx)) / 20).
ShadeRound(m, tot, maxTot) ==
    LET mx == IF maxTot = 0 THEN 1 ELSE maxTot
    IN  (3 * m + 10 + ISqrtIn((289 * m * m * tot) \div mx, 0, 17 * m)) \div 20

\* Mutant of ShadedChannel: the rounded product without Math.min.
ShadedChannelUnclamped(m, tot, maxTot) == ShadeRound(m, tot, maxTot)

\* Math.min(255, Math.round(mix[ch] * shade))
ShadedChannel(m, tot, maxTot) == Min2(255, ShadeRound(m, tot, maxTot))

\* rgbToCss: the string "rgb(r, g, b)", kept as its three numbers.
rgbToCss(rgb) == [css |-> "rgb", r |-> rgb[1], g |-> rgb[2], b |-> rgb[3]]

\* The string "transparent".
Transparent == [css |-> "transparent", r |-> 0, g |-> 0, b |-> 0]

\* The four counters of cell i (0-based) handed to mixSRGB.
CellCounts(acc, i) ==
    << acc.counts[i * Stride + 1], acc.counts[i * Stride + 2],
       acc.counts[i * Stride + 3], acc.counts[i * Stride + 4] >>

\* The mixed colour of cell i before shading.
CellMix(acc, i) == mixSRGB(CellCounts(acc, i), acc.totals[i + 1])

\* out[i] of the render loop.
CellColour(acc, i) ==
    LET tot == acc.totals[i + 1]
        mix == CellMix(acc, i)
    IN  IF tot = 0 THEN Transparent
        ELSE rgbToCss(<< ShadedChannel(mix[1], tot, acc.maxTot),
                         ShadedChannel(mix[2], tot, acc.maxTot),
                         ShadedChannel(mix[3], tot, acc.maxTot) >>)

\* new Array(W * H).fill("rgba(0,0,0,0)")
Placeholder == [css |-> "rgba(0,0,0,0)", r |-> 0, g |-> 0, b |-> 0]
OutFill == [i \in 1 .. W * H |-> Placeholder]

RECURSIVE RenderLoop(_, _, _)
\* The render loop from cell i on: out[i] = "transparent" or the colour.
RenderLoop(acc, out, i) ==
    IF i >= W * H THEN out
    ELSE RenderLoop(acc, [out EXCEPT ![i + 1] = CellColour(acc, i)], i + 1)

\* The array handed to setCells.
Render(acc) == RenderLoop(acc, OutFill, 0)


(***************************************************************************)
(* State.                                                                  *)
(***************************************************************************)
VARIABLES
    status,      \* store: "idle" | "starting" | "ready" | "error"
    error,       \* store: NoError or the message of the last caught failure
    conn,        \* store: NoConn or the id of a connection
    lastResult,  \* store: NoResult or the identity of the array set by loadData
    nConn,       \* connections created so far by initDuckDB
    db,          \* per connection: open?, does arrow_table exist, its rows
    queue,       \* per connection: the requests sent to its worker, oldest first
    inits,       \* start() invocations awaiting initDuckDB
    nStart,      \* start() invocations that passed the guard so far
    stops,       \* stop() invocations: [conn, pc]
    loads,       \* loadData() invocations: [conn, pc]
    homeDeps,    \* [conn, status] as last seen by Home's loading effect
    gmDeps,      \* [conn, status, lastResult] as last seen by GridMap's effect
    runs,        \* runs of GridMap's effect that reached the extent query
    phase,       \* GridMap: the phase text
    cells,       \* GridMap: NoCells or the published grid
    pubRun       \* the run whose setCells call set cells (0: none)

vars == << status, error, conn, lastResult, nConn, db, queue, inits, nStart,
           stops, loads, homeDeps, gmDeps, runs, phase, cells, pubRun >>

storeVars == << status, error, conn, lastResult >>
gridVars  == << gmDeps, runs, phase, cells, pubRun >>

NoConn   == 0
NoResult == 0
NoError  == "null"
NoCells  == << >>

(***************************************************************************)
(* Bounds of the concurrent model.                                         *)
(***************************************************************************)
\* start() invocations that pass the guard (each creates at most one connection).
MaxStart == 2
\* stop() invocations.
MaxStop == 1
\* loadData() invocations that find a connection.
MaxLoads == 2
\* Runs of GridMap's effect that issue the extent query.
MaxRuns == 2

Conns == 1 .. MaxStart

\* The tables makeFakeArrowTable returns in the concurrent model: one whose
\* grid has two coloured cells, one with a single occupied cell.
FakeTables ==
    { << [x |-> 0, y |-> 0, cat |-> 0], [x |-> 1, y |-> 0, cat |-> 1],
         [x |-> MaxCoord, y |-> MaxCoord, cat |-> 2] >>,
      << [x |-> 0, y |-> 0, cat |-> 3], [x |-> 1, y |-> 1, cat |-> 3] >> }

FreshDb == [open |-> TRUE, exists |-> FALSE, rows |-> << >>]

\* A request is answered when it is the oldest one its worker holds.
AtHead(c, kind, id) ==
    /\ Len(queue[c]) > 0
    /\ Head(queue[c]) = [kind |-> kind, id |-> id]

Enqueue(q, c, kind, id) == [q EXCEPT ![c] = Append(@, [kind |-> kind, id |-> id])]
Dequeue(q, c) == [q EXCEPT ![c] = Tail(@)]


(***************************************************************************)
(* The store: start().                                                     *)
(***************************************************************************)
\* start() past its guard: status "starting", then await initDuckDB().  The
\* first call is the one of Home's mount effect.  A call that the guard
\* turns away changes nothing.
Start ==
    /\ nStart < MaxStart
    /\ ~(status = "starting" \/ conn # NoConn)
    /\ status' = "starting"
    /\ error' = NoError
    /\ inits' = inits + 1
    /\ nStart' = nStart + 1
    /\ UNCHANGED << conn, lastResult, nConn, db, queue, stops, loads,
                    homeDeps, gridVars >>

\* initDuckDB() resolves: set({ conn, status: "ready" }).
InitOk ==
    /\ inits > 0
    /\ inits' = inits - 1
    /\ nConn' = nConn + 1
    /\ db' = [db EXCEPT ![nConn + 1] = FreshDb]
    /\ conn' = nConn + 1
    /\ status' = "ready"
    /\ UNCHANGED << error, lastResult, queue, nStart, stops, loads,
                    homeDeps, gridVars >>

\* initDuckDB() rejects: set({ status: "error", error: String(e) }).
InitFail ==
    /\ inits > 0
    /\ inits' = inits - 1
    /\ status' = "error"
    /\ error' = "init failed"
    /\ UNCHANGED << conn, lastResult, nConn, db, queue, nStart, stops, loads,
                    homeDeps, gridVars >>

(***************************************************************************)
(* The store: stop().                                                      *)
(***************************************************************************)
\* stop() up to its await: the close request of the connection it read.
\* Without a connection there is nothing to wait for and the set follows.
Stop ==
    /\ Len(stops) < MaxStop
    /\ IF conn = NoConn
       THEN /\ stops' = Append(stops, [conn |-> NoConn, pc |-> "done"])
            /\ status' = "idle"
            /\ error' = NoError
            /\ UNCHANGED << conn, queue >>
       ELSE /\ stops' = Append(stops, [conn |-> conn, pc |-> "closing"])
            /\ queue' = Enqueue(queue, conn, "stop", Len(stops) + 1)
            /\ UNCHANGED << status, error, conn >>
    /\ UNCHANGED << lastResult, nConn, db, inits, nStart, loads, homeDeps, gridVars >>

\* close() settles (a rejection is swallowed):
\* set({ conn: null, status: "idle", error: null }).
StopDone(s) ==
    /\ stops[s].pc = "closing"
    /\ AtHead(stops[s].conn, "stop", s)
    /\ queue' = Dequeue(queue, stops[s].conn)
    /\ db' = [db EXCEPT ![stops[s].conn].open = FALSE]
    /\ stops' = [stops EXCEPT ![s].pc = "done"]
    /\ conn' = NoConn
    /\ status' = "idle"
    /\ error' = NoError
    /\ UNCHANGED << lastResult, nConn, inits, nStart, loads, homeDeps, gridVars >>

(***************************************************************************)
(* The store: loadData().                                                  *)
(***************************************************************************)
\* loadData() up to its first await: DROP TABLE IF EXISTS arrow_table.
LoadCall ==
    /\ conn # NoConn
    /\ Len(loads) < MaxLoads
    /\ loads' = Append(loads, [conn |-> conn, pc |-> "drop"])
    /\ queue' = Enqueue(queue, conn, "load", Len(loads) + 1)

\* loadData() called from outside the two components.
LoadData ==
    /\ LoadCall
    /\ UNCHANGED << storeVars, nConn, db, inits, nStart, stops, homeDeps, gridVars >>

\* Home's second effect, deps [conn, status, loadData]: when the connection
\* is ready, await loadData().
HomeEffect ==
    /\ homeDeps # << conn, status >>
    /\ homeDeps' = << conn, status >>
    /\ IF conn # NoConn /\ status = "ready"
       THEN LoadCall
       ELSE UNCHANGED << loads, queue >>
    /\ UNCHANGED << storeVars, nConn, db, inits, nStart, stops, gridVars >>

\* The DROP is answered; makeFakeArrowTable(); the table is sent.
LoadDropOk(l) ==
    /\ loads[l].pc = "drop"
    /\ AtHead(loads[l].conn, "load", l)
    /\ db[loads[l].conn].open
    /\ db' = [db EXCEPT ![loads[l].conn].exists = FALSE,
                        ![loads[l].conn].rows = << >>]
    /\ queue' = Enqueue(Dequeue(queue, loads[l].conn), loads[l].conn, "load", l)
    /\ loads' = [loads EXCEPT ![l].pc = "insert"]
    /\ UNCHANGED << storeVars, nConn, inits, nStart, stops, homeDeps, gridVars >>

\* insertArrowTable(tbl) is answered: arrow_table is created with the rows
\* of tbl; the end-of-stream marker is sent.
LoadInsertOk(l) ==
    /\ loads[l].pc = "insert"
    /\ AtHead(loads[l].conn, "load", l)
    /\ db[loads[l].conn].open
    /\ ~db[loads[l].conn].exists
    /\ \E tbl \in FakeTables :
          db' = [db EXCEPT ![loads[l].conn].exists = TRUE,
                           ![loads[l].conn].rows = tbl]
    /\ queue' = Enqueue(Dequeue(queue, loads[l].conn), loads[l].conn, "load", l)
    /\ loads' = [loads EXCEPT ![l].pc = "eos"]
    /\ UNCHANGED << storeVars, nConn, inits, nStart, stops, homeDeps, gridVars >>

\* insertArrowTable(EOS) is answered; the COUNT query is sent.
LoadEosOk(l) ==
    /\ loads[l].pc = "eos"
    /\ AtHead(loads[l].conn, "load", l)
    /\ db[loads[l].conn].open
    /\ db[loads[l].conn].exists
    /\ queue' = Enqueue(Dequeue(queue, loads[l].conn), loads[l].conn, "load", l)
    /\ loads' = [loads EXCEPT ![l].pc = "count"]
    /\ UNCHANGED << storeVars, nConn, db, inits, nStart, stops, homeDeps, gridVars >>

\* The COUNT query is answered: set({ lastResult: res.toArray() }), a new
\* array each time.
LoadCountOk(l) ==
    /\ loads[l].pc = "count"
    /\ AtHead(loads[l].conn, "load", l)
    /\ db[loads[l].conn].open
    /\ db[loads[l].conn].exists
    /\ queue' = Dequeue(queue, loads[l].conn)
    /\ loads' = [loads EXCEPT ![l].pc = "done"]
    /\ lastResult' = l
    /\ UNCHANGED << status, error, conn, nConn, db, inits, nStart, stops,
                    homeDeps, gridVars >>

\* Any of the four requests is rejected (a closed connection, a missing or
\* already existing table, a fault of the engine): catch, set({ error }).
LoadFail(l) ==
    /\ loads[l].pc \in {"drop", "insert", "eos", "count"}
    /\ AtHead(loads[l].conn, "load", l)
    /\ queue' = Dequeue(queue, loads[l].conn)
    /\ loads' = [loads EXCEPT ![l].pc = "failed"]
    /\ error' = "load failed"
    /\ UNCHANGED << status, conn, lastResult, nConn, db, inits, nStart, stops,
                    homeDeps, gridVars >>


(***************************************************************************)
(* GridMap's refresh effect, deps [conn, status, lastResult].              *)
(***************************************************************************)
\* The effect runs after a render that changed its deps (and on mount), up
\* to its first await.  Without a ready connection it returns; without
\* data it shows the waiting phase and returns; otherwise it shows
\* "computing extents..." and sends the extent query.
GridEffect ==
    /\ gmDeps # << conn, status, lastResult >>
    /\ gmDeps' = << conn, status, lastResult >>
    /\ IF conn = NoConn \/ status # "ready"
       THEN UNCHANGED << runs, phase, queue >>
       ELSE IF lastResult = NoResult
       THEN /\ phase' = "waiting for data"
            /\ UNCHANGED << runs, queue >>
       ELSE /\ Len(runs) < MaxRuns
            /\ phase' = "computing extents"
            /\ runs' = Append(runs, [conn |-> conn, pc |-> "extent",
                                     b |-> ExtentQuery(<< >>),
                                     rows |-> << >>, tbl |-> << >>])
            /\ queue' = Enqueue(queue, conn, "run", Len(runs) + 1)
    /\ UNCHANGED << storeVars, nConn, db, inits, nStart, stops, loads,
                    homeDeps, cells, pubRun >>

\* Mutant of RunExtentOk: an undefined or degenerate extent ends the
\* refresh at once with an all-empty grid, and no binning query is sent.
RunExtentOkShortCircuit(r) ==
    /\ runs[r].pc = "extent"
    /\ AtHead(runs[r].conn, "run", r)
    /\ db[runs[r].conn].open
    /\ db[runs[r].conn].exists
    /\ LET b == ExtentQuery(db[runs[r].conn].rows)
       IN  IF ~b.null /\ b.xmax > b.xmin /\ b.ymax > b.ymin
           THEN /\ runs' = [runs EXCEPT ![r].pc = "binning", ![r].b = b]
                /\ phase' = "binning"
                /\ queue' = Enqueue(Dequeue(queue, runs[r].conn), runs[r].conn, "run", r)
                /\ UNCHANGED << cells, pubRun >>
           ELSE /\ runs' = [runs EXCEPT ![r].pc = "done", ![r].b = b,
                                        ![r].tbl = db[runs[r].conn].rows]
                /\ phase' = "done"
                /\ queue' = Dequeue(queue, runs[r].conn)
                /\ cells' = [i \in 1 .. W * H |-> Transparent]
                /\ pubRun' = r
    /\ UNCHANGED << storeVars, nConn, db, inits, nStart, stops, loads,
                    homeDeps, gmDeps >>

\* The extent query is answered: b = t.toArray()[0]; the phase becomes
\* "binning..." and the binning query, built from b, is sent.
RunExtentOk(r) ==
    /\ runs[r].pc = "extent"
    /\ AtHead(runs[r].conn, "run", r)
    /\ db[runs[r].conn].open
    /\ db[runs[r].conn].exists
    /\ runs' = [runs EXCEPT ![r].pc = "binning",
                            ![r].b = ExtentQuery(db[runs[r].conn].rows)]
    /\ phase' = "binning"
    /\ queue' = Enqueue(Dequeue(queue, runs[r].conn), runs[r].conn, "run", r)
    /\ UNCHANGED << storeVars, nConn, db, inits, nStart, stops, loads,
                    homeDeps, gmDeps, cells, pubRun >>

\* The binning query is answered (its text names no column the table
\* lacks): accumulate the rows, render every cell, setCells(out),
\* setPhase("done").
RunBinOk(r) ==
    /\ runs[r].pc = "binning"
    /\ AtHead(runs[r].conn, "run", r)
    /\ db[runs[r].conn].open
    /\ db[runs[r].conn].exists
    /\ ValidSql(runs[r].b)
    /\ LET rows == BinningQuery(db[runs[r].conn].rows, runs[r].b)
       IN  /\ runs' = [runs EXCEPT ![r].pc = "done",
                                   ![r].rows = rows,
                                   ![r].tbl = db[runs[r].conn].rows]
           /\ cells' = Render(Accumulate(rows))
    /\ phase' = "done"
    /\ pubRun' = r
    /\ queue' = Dequeue(queue, runs[r].conn)
    /\ UNCHANGED << storeVars, nConn, db, inits, nStart, stops, loads,
                    homeDeps, gmDeps >>

\* The extent query is rejected (a closed connection, no arrow_table, a
\* fault of the engine): the async function ends there; nothing catches.
RunExtentFail(r) ==
    /\ runs[r].pc = "extent"
    /\ AtHead(runs[r].conn, "run", r)
    /\ runs' = [runs EXCEPT ![r].pc = "failed"]
    /\ queue' = Dequeue(queue, runs[r].conn)
    /\ UNCHANGED << storeVars, nConn, db, inits, nStart, stops, loads,
                    homeDeps, gmDeps, phase, cells, pubRun >>

\* Mutant of RunBinFail: the array is published as filled, before the
\* answer of the binning query is known.
RunBinFailPublishing(r) ==
    /\ runs[r].pc = "binning"
    /\ AtHead(runs[r].conn, "run", r)
    /\ runs' = [runs EXCEPT ![r].pc = "failed"]
    /\ queue' = Dequeue(queue, runs[r].conn)
    /\ cells' = OutFill
    /\ UNCHANGED << storeVars, nConn, db, inits, nStart, stops, loads,
                    homeDeps, gmDeps, phase, pubRun >>

\* The binning query is rejected: as above.
RunBinFail(r) ==
    /\ runs[r].pc = "binning"
    /\ AtHead(runs[r].conn, "run", r)
    /\ runs' = [runs EXCEPT ![r].pc = "failed"]
    /\ queue' = Dequeue(queue, runs[r].conn)
    /\ UNCHANGED << storeVars, nConn, db, inits, nStart, stops, loads,
                    homeDeps, gmDeps, phase, cells, pubRun >>

(***************************************************************************)
(* Specifications.                                                         *)
(***************************************************************************)
Unmounted == << -1, "", -1 >>

\* The page after construction: an idle store, both components about to
\* run their effects.
Init ==
    /\ status = "idle"
    /\ error = NoError
    /\ conn = NoConn
    /\ lastResult = NoResult
    /\ nConn = 0
    /\ db = [c \in Conns |-> FreshDb]
    /\ queue = [c \in Conns |-> << >>]
    /\ inits = 0
    /\ nStart = 0
    /\ stops = << >>
    /\ loads = << >>
    /\ homeDeps = << -1, "" >>
    /\ gmDeps = Unmounted
    /\ runs = << >>
    /\ phase = "waiting for data"
    /\ cells = NoCells
    /\ pubRun = 0

GridNext ==
    \/ GridEffect
    \/ \E r \in DOMAIN runs : RunExtentOk(r)
    \/ \E r \in DOMAIN runs : RunBinOk(r)
    \/ \E r \in DOMAIN runs : RunExtentFail(r)
    \/ \E r \in DOMAIN runs : RunBinFail(r)

Next ==
    \/ Start
    \/ InitOk
    \/ InitFail
    \/ Stop
    \/ \E s \in DOMAIN stops : StopDone(s)
    \/ LoadData
    \/ HomeEffect
    \/ \E l \in DOMAIN loads : LoadDropOk(l)
    \/ \E l \in DOMAIN loads : LoadInsertOk(l)
    \/ \E l \in DOMAIN loads : LoadEosOk(l)
    \/ \E l \in DOMAIN loads : LoadCountOk(l)
    \/ \E l \in DOMAIN loads : LoadFail(l)
    \/ GridNext

Spec == Init /\ [][Next]_vars

(***************************************************************************)
(* The refresh pipeline on its own: the store is ready, one loadData has    *)
(* filled arrow_table with any table of at most MaxPts points, and only    *)
(* GridMap's effect runs.                                                  *)
(***************************************************************************)
PointKey(p) == (p.x * (MaxCoord + 1) + p.y) * (MaxCat + 1) + p.cat

\* A multiset of points is drawn once, as the table listing it in key order.
SortedTable(t) ==
    \A i \in 1 .. Len(t) - 1 : PointKey(t[i]) <= PointKey(t[i + 1])

GridInit ==
    /\ status = "ready"
    /\ error = NoError
    /\ conn = 1
    /\ lastResult = 1
    /\ nConn = 1
    /\ \E n \in 0 .. MaxPts : \E t \in [1 .. n -> Point] :
          /\ SortedTable(t)
          /\ db = [c \in Conns |-> IF c = 1
                                THEN [open |-> TRUE, exists |-> TRUE, rows |-> t]
                                ELSE FreshDb]
    /\ queue = [c \in Conns |-> << >>]
    /\ inits = 0
    /\ nStart = 1
    /\ stops = << >>
    /\ loads = << [conn |-> 1, pc |-> "done"] >>
    /\ homeDeps = << 1, "ready" >>
    /\ gmDeps = Unmounted
    /\ runs = << >>
    /\ phase = "waiting for data"
    /\ cells = NoCells
    /\ pubRun = 0

GridSpec == GridInit /\ [][GridNext]_vars

(***************************************************************************)
(* The refresh pipeline on a table that may hold one point with non-finite *)
(* coordinates: any table of fewer than MaxPts finite points, followed by  *)
(* one more point with coordinates drawn from all Float32 values.          *)
(***************************************************************************)
FloatInit ==
    /\ status = "ready"
    /\ error = NoError
    /\ conn = 1
    /\ lastResult = 1
    /\ nConn = 1
    /\ \E n \in 0 .. MaxPts - 1 : \E t \in [1 .. n -> Point] : \E p \in FloatPoint :
          /\ SortedTable(t)
          /\ db = [c \in Conns |-> IF c = 1
                                THEN [open |-> TRUE, exists |-> TRUE,
                                      rows |-> Append(t, p)]
                                ELSE FreshDb]
    /\ queue = [c \in Conns |-> << >>]
    /\ inits = 0
    /\ nStart = 1
    /\ stops = << >>
    /\ loads = << [conn |-> 1, pc |-> "done"] >>
    /\ homeDeps = << 1, "ready" >>
    /\ gmDeps = Unmounted
    /\ runs = << >>
    /\ phase = "waiting for data"
    /\ cells = NoCells
    /\ pubRun = 0

FloatSpec == FloatInit /\ [][GridNext]_vars

(***************************************************************************)
(* The refresh pipeline on a table with a point at the upper corner of the *)
(* coordinate range: any table of at most MaxPts points, followed by the   *)
(* point (MaxCoord, MaxCoord).  The corner point fixes xmax and ymax, so   *)
(* up to MaxPts points fall inside the grid.                               *)
(***************************************************************************)
CornerPoint == [x |-> MaxCoord, y |-> MaxCoord, cat |-> 0]

CornerInit ==
    /\ status = "ready"
    /\ error = NoError
    /\ conn = 1
    /\ lastResult = 1
    /\ nConn = 1
    /\ \E n \in 0 .. MaxPts : \E t \in [1 .. n -> Point] :
          /\ SortedTable(t)
          /\ db = [c \in Conns |-> IF c = 1
                                THEN [open |-> TRUE, exists |-> TRUE,
                                      rows |-> Append(t, CornerPoint)]
                                ELSE FreshDb]
    /\ queue = [c \in Conns |-> << >>]
    /\ inits = 0
    /\ nStart = 1
    /\ stops = << >>
    /\ loads = << [conn |-> 1, pc |-> "done"] >>
    /\ homeDeps = << 1, "ready" >>
    /\ gmDeps = Unmounted
    /\ runs = << >>
    /\ phase = "waiting for data"
    /\ cells = NoCells
    /\ pubRun = 0

CornerSpec == CornerInit /\ [][GridNext]_vars

(***************************************************************************)
(* The refresh pipeline while the table is reloaded: the store is ready,   *)
(* one loadData has completed, and loadData is called again up to          *)
(* MaxReloads times while GridMap's effect runs.                           *)
(***************************************************************************)
\* loadData() invocations after the first one.
MaxReloads == 3

\* loadData() called again: the same steps as LoadData.
Reload ==
    /\ conn # NoConn
    /\ Len(loads) < 1 + MaxReloads
    /\ loads' = Append(loads, [conn |-> conn, pc |-> "drop"])
    /\ queue' = Enqueue(queue, conn, "load", Len(loads) + 1)
    /\ UNCHANGED << storeVars, nConn, db, inits, nStart, stops, homeDeps, gridVars >>

ReloadInit ==
    /\ status = "ready"
    /\ error = NoError
    /\ conn = 1
    /\ lastResult = 1
    /\ nConn = 1
    /\ \E t \in FakeTables :
          db = [c \in Conns |-> IF c = 1
                                THEN [open |-> TRUE, exists |-> TRUE, rows |-> t]
                                ELSE FreshDb]
    /\ queue = [c \in Conns |-> << >>]
    /\ inits = 0
    /\ nStart = 1
    /\ stops = << >>
    /\ loads = << [conn |-> 1, pc |-> "done"] >>
    /\ homeDeps = << 1, "ready" >>
    /\ gmDeps = Unmounted
    /\ runs = << >>
    /\ phase = "waiting for data"
    /\ cells = NoCells
    /\ pubRun = 0

ReloadNext ==
    \/ Reload
    \/ \E l \in DOMAIN loads : LoadDropOk(l)
    \/ \E l \in DOMAIN loads : LoadInsertOk(l)
    \/ \E l \in DOMAIN loads : LoadEosOk(l)
    \/ \E l \in DOMAIN loads : LoadCountOk(l)
    \/ \E l \in DOMAIN loads : LoadFail(l)
    \/ GridNext

ReloadSpec == ReloadInit /\ [][ReloadNext]_vars


(***************************************************************************)
(* Vocabulary of the properties: the cells and their points as the data    *)
(* model states them, counted straight from the table a run read.          *)
(***************************************************************************)
\* Palette size.
K == Len(PALETTE)

\* The run whose grid is the published one.
Pub == runs[pubRun]

\* The rows of table tbl that the binning of extent b places in cell (ix, iy).
PointsOfCell(tbl, b, ix, iy) ==
    {i \in DOMAIN tbl :
        /\ InExtent(tbl[i], b)
        /\ BinIndex(tbl[i].x, b.xmin, b.xmax, W) = ix
        /\ BinIndex(tbl[i].y, b.ymin, b.ymax, H) = iy}

CellTotalOf(tbl, b, ix, iy) == Cardinality(PointsOfCell(tbl, b, ix, iy))

CellCountOf(tbl, b, ix, iy, k) ==
    Cardinality({i \in PointsOfCell(tbl, b, ix, iy) : tbl[i].cat = k})

MaxTotalOf(tbl, b) ==
    SetMax({CellTotalOf(tbl, b, ix, iy) : ix \in 0 .. W - 1, iy \in 0 .. H - 1})

\* The colour the design gives cell (ix, iy): the palette mixed by its own
\* per-category counts over its total, shaded by total / maxTotal.
ColourOf(tbl, b, ix, iy) ==
    LET tot == CellTotalOf(tbl, b, ix, iy)
        mix == mixSRGB([k \in 1 .. K |-> CellCountOf(tbl, b, ix, iy, k - 1)], tot)
        mx  == MaxTotalOf(tbl, b)
    IN  IF tot = 0 THEN Transparent
        ELSE rgbToCss(<< ShadedChannel(mix[1], tot, mx),
                         ShadedChannel(mix[2], tot, mx),
                         ShadedChannel(mix[3], tot, mx) >>)

NoOverflow(tbl) == \A i \in DOMAIN tbl : tbl[i].cat < K

NonDegenerate(b) == ~b.null /\ b.xmax > b.xmin /\ b.ymax > b.ymin

\* tbl with its rows in the order perm.
Permuted(tbl, perm) == [i \in DOMAIN tbl |-> tbl[perm[i]]]

(***************************************************************************)
(* C1.  Every published grid has exactly W * H entries, and the entry of   *)
(* cell (ix, iy) is the one at index iy * W + ix: that entry is empty      *)
(* exactly when the cell holds no point, and for a table without overflow  *)
(* categories it is the colour of that cell's own points.                  *)
(***************************************************************************)
C1_GridIsRowMajor ==
    pubRun # 0 =>
        /\ DOMAIN cells = 1 .. W * H
        /\ \A ix \in 0 .. W - 1, iy \in 0 .. H - 1 :
              /\ (cells[iy * W + ix + 1] = Transparent)
                    <=> (CellTotalOf(Pub.tbl, Pub.b, ix, iy) = 0)
              /\ NoOverflow(Pub.tbl) =>
                    cells[iy * W + ix + 1] = ColourOf(Pub.tbl, Pub.b, ix, iy)

\* A published grid whose cell (1, 0) is coloured and whose cell (0, 1) is
\* empty, from a table without overflow categories.
C1_Witness ==
    /\ pubRun # 0
    /\ NoOverflow(Pub.tbl)
    /\ cells[0 * W + 1 + 1] # Transparent
    /\ cells[1 * W + 0 + 1] = Transparent

(***************************************************************************)
(* C2.  In every published grid a cell holds "transparent" if and only if  *)
(* its total is 0, the total counting every accepted point of the cell,    *)
(* those of categories beyond the palette included.                        *)
(***************************************************************************)
C2_EmptyIffTotalZero ==
    pubRun # 0 =>
        LET acc == Accumulate(Pub.rows)
        IN  \A ix \in 0 .. W - 1, iy \in 0 .. H - 1 :
              /\ acc.totals[CellIndex(ix, iy) + 1] = CellTotalOf(Pub.tbl, Pub.b, ix, iy)
              /\ (cells[CellIndex(ix, iy) + 1] = Transparent)
                    <=> (CellTotalOf(Pub.tbl, Pub.b, ix, iy) = 0)

\* A published grid with a coloured cell all of whose points are of an
\* overflow category, and with an empty cell.
C2_Witness ==
    /\ pubRun # 0
    /\ \E ix \in 0 .. W - 1, iy \in 0 .. H - 1 :
          /\ CellTotalOf(Pub.tbl, Pub.b, ix, iy) > 0
          /\ \A i \in PointsOfCell(Pub.tbl, Pub.b, ix, iy) : Pub.tbl[i].cat >= K
          /\ cells[CellIndex(ix, iy) + 1] # Transparent
    /\ \E i \in DOMAIN cells : cells[i] = Transparent

(***************************************************************************)
(* C3.  As claimed: for a non-degenerate extent a point whose x equals     *)
(* xmax (or whose y equals ymax) is binned into the last column W - 1 (or  *)
(* row H - 1) and counted there.                                           *)
(***************************************************************************)
ClampedIx(p, b) == Min2(W - 1, BinIndex(p.x, b.xmin, b.xmax, W))
ClampedIy(p, b) == Min2(H - 1, BinIndex(p.y, b.ymin, b.ymax, H))

C3_MaxEdgeCountedInLastBin ==
    (pubRun # 0 /\ NonDegenerate(Pub.b)) =>
        LET acc == Accumulate(Pub.rows)
            tbl == Pub.tbl
            b   == Pub.b
        IN  \A i \in DOMAIN tbl :
              (InExtent(tbl[i], b) /\ (tbl[i].x = b.xmax \/ tbl[i].y = b.ymax)) =>
                 acc.totals[ClampedIy(tbl[i], b) * W + ClampedIx(tbl[i], b) + 1]
                    = Cardinality({j \in DOMAIN tbl :
                          /\ InExtent(tbl[j], b)
                          /\ ClampedIx(tbl[j], b) = ClampedIx(tbl[i], b)
                          /\ ClampedIy(tbl[j], b) = ClampedIy(tbl[i], b)})

(***************************************************************************)
(* C3, amended.  For a non-degenerate extent a point whose x equals xmax   *)
(* gets column W, and one whose y equals ymax gets row H; both lie outside *)
(* the grid and the point is rejected: the total of every cell counts only *)
(* the points of the cell with x < xmax and y < ymax.  With W = H = 2 and  *)
(* the points (0,0,0), (0,0,0), (max,max,1), cell (0,0) has total 2 and    *)
(* cell (1,1) has total 0 and is published empty.                          *)
(***************************************************************************)
C3_MaxEdgeRejected ==
    (pubRun # 0 /\ NonDegenerate(Pub.b)) =>
        LET acc == Accumulate(Pub.rows)
            tbl == Pub.tbl
            b   == Pub.b
        IN  /\ \A i \in DOMAIN tbl :
                 /\ tbl[i].x = b.xmax => BinIndex(tbl[i].x, b.xmin, b.xmax, W) = W
                 /\ tbl[i].y = b.ymax => BinIndex(tbl[i].y, b.ymin, b.ymax, H) = H
            /\ \A ix \in 0 .. W - 1, iy \in 0 .. H - 1 :
                 acc.totals[iy * W + ix + 1]
                    = Cardinality({j \in PointsOfCell(tbl, b, ix, iy) :
                                      tbl[j].x < b.xmax /\ tbl[j].y < b.ymax})

\* The scenario of the design's example: two points at the minimum corner,
\* one at the maximum corner; the last cell is published empty.
C3_Witness ==
    /\ pubRun # 0
    /\ Pub.tbl = << [x |-> 0, y |-> 0, cat |-> 0], [x |-> 0, y |-> 0, cat |-> 0],
                    [x |-> MaxCoord, y |-> MaxCoord, cat |-> 1] >>
    /\ Accumulate(Pub.rows).totals[1] = 2
    /\ cells[W * H] = Transparent

(***************************************************************************)
(* C4.  As claimed: aggregating a row of cell c with category cat changes  *)
(* only the aggregates of c; with cat >= K no per-category counter of any  *)
(* cell changes; the counters and total of every other cell are unchanged. *)
(***************************************************************************)
C4_RowTouchesOnlyItsCell ==
    \A r \in DOMAIN runs :
        runs[r].pc = "done" =>
            \A k \in 1 .. Len(runs[r].rows) :
                LET before == AccPrefix(runs[r].rows, k - 1)
                    after  == AccPrefix(runs[r].rows, k)
                    row    == runs[r].rows[k]
                    c      == row.iy * W + row.ix
                IN  /\ row.cat_id >= K => after.counts = before.counts
                    /\ \A j \in 1 .. W * H * Stride :
                          (j - 1) \div Stride # c => after.counts[j] = before.counts[j]
                    /\ \A i \in 0 .. W * H - 1 :
                          i # c => after.totals[i + 1] = before.totals[i + 1]

(***************************************************************************)
(* C5.  For a fixed grid and palette the result rows, the per-cell          *)
(* aggregates and the published grid are the same for every order of the   *)
(* points of the table, and the aggregates are the same for every order in *)
(* which the result rows are fed to the accumulation loop.                 *)
(***************************************************************************)
C5_OrderIrrelevant ==
    pubRun # 0 =>
        /\ \A perm \in Permutations(DOMAIN Pub.tbl) :
              LET t    == Permuted(Pub.tbl, perm)
                  rows == BinningQuery(t, ExtentQuery(t))
              IN  /\ ExtentQuery(t) = ExtentQuery(Pub.tbl)
                  /\ Accumulate(rows) = Accumulate(BinningQuery(Pub.tbl, ExtentQuery(Pub.tbl)))
                  /\ ExtentQuery(Pub.tbl) = Pub.b => Render(Accumulate(rows)) = cells
        /\ \A perm \in Permutations(DOMAIN Pub.rows) :
              /\ Accumulate(Permuted(Pub.rows, perm)) = Accumulate(Pub.rows)
              /\ Render(Accumulate(Permuted(Pub.rows, perm))) = cells

\* A published grid from three distinct points and two result rows of one
\* cell (so both the table and the rows have orders that differ).
C5_Witness ==
    /\ pubRun # 0
    /\ Len(Pub.tbl) = 3
    /\ Pub.tbl[1] # Pub.tbl[2] /\ Pub.tbl[2] # Pub.tbl[3]
    /\ Len(Pub.rows) = 2
    /\ Pub.rows[1].ix = Pub.rows[2].ix /\ Pub.rows[1].iy = Pub.rows[2].iy

(***************************************************************************)
(* C6.  A refresh over an empty table, or over a table whose points all    *)
(* share one x or one y, is not stopped by its data: the extent query      *)
(* answers (with NULLs or a degenerate extent), the binning query built    *)
(* from that answer is answered with no row, and the grid published has    *)
(* all its W * H cells empty.                                              *)
(***************************************************************************)
DegenerateTable(tbl) ==
    \/ Len(tbl) = 0
    \/ \A i, j \in DOMAIN tbl : tbl[i].x = tbl[j].x
    \/ \A i, j \in DOMAIN tbl : tbl[i].y = tbl[j].y

C6_DegenerateIsEmptyGrid ==
    \A r \in DOMAIN runs :
        LET tbl == db[runs[r].conn].rows
        IN  /\ (runs[r].pc = "binning" /\ DegenerateTable(tbl)
                   /\ runs[r].b = ExtentQuery(tbl))
                  => /\ ~NonDegenerate(runs[r].b)
                     /\ BinningQuery(tbl, runs[r].b) = << >>
            /\ (runs[r].pc = "done" /\ pubRun = r /\ DegenerateTable(runs[r].tbl)
                   /\ runs[r].b = ExtentQuery(runs[r].tbl))
                  => /\ runs[r].rows = << >>
                     /\ cells = [i \in 1 .. W * H |-> Transparent]

\* A published grid from a table of several points that share their x and
\* differ in y.
C6_Witness ==
    /\ pubRun # 0
    /\ Len(Pub.tbl) >= 2
    /\ \A i, j \in DOMAIN Pub.tbl : Pub.tbl[i].x = Pub.tbl[j].x
    /\ \E i, j \in DOMAIN Pub.tbl : Pub.tbl[i].y # Pub.tbl[j].y
    /\ cells = [i \in 1 .. W * H |-> Transparent]

(***************************************************************************)
(* C7.  In every published grid the three channels of every non-empty cell *)
(* are integers in 0 .. 255, whatever counters and totals the accumulation *)
(* produced.                                                               *)
(***************************************************************************)
C7_ChannelsInByteRange ==
    pubRun # 0 =>
        \A i \in DOMAIN cells :
            cells[i] # Transparent =>
                /\ cells[i].css = "rgb"
                /\ cells[i].r \in 0 .. 255
                /\ cells[i].g \in 0 .. 255
                /\ cells[i].b \in 0 .. 255

\* A published cell whose counters hold more than its total (rows of an
\* overflow category of the preceding cell were added to them): its mix
\* exceeds 255 and the published channel is 255.
C7_Witness ==
    /\ pubRun # 0
    /\ \E i \in 0 .. W * H - 1 :
          /\ Accumulate(Pub.rows).totals[i + 1] > 0
          /\ CellMix(Accumulate(Pub.rows), i)[1] > 255
          /\ cells[i + 1].r = 255

(***************************************************************************)
(* C8.  As claimed: for a cell with total > 0 the mixed colour before      *)
(* shading is, per channel, round(sum over k < K of palette[k].channel *   *)
(* counts[k] / total), counts[k] being the number of the cell's points of  *)
(* category k and total the number of all its points.                      *)
(***************************************************************************)
C8_MixIsPaletteWeightedByCounts ==
    pubRun # 0 =>
        \A ix \in 0 .. W - 1, iy \in 0 .. H - 1 :
            LET tot == CellTotalOf(Pub.tbl, Pub.b, ix, iy)
            IN  tot > 0 =>
                  \A ch \in 1 .. 3 :
                     CellMix(Accumulate(Pub.rows), iy * W + ix)[ch]
                        = RoundDiv(PALETTE[1][ch] * CellCountOf(Pub.tbl, Pub.b, ix, iy, 0)
                                   + PALETTE[2][ch] * CellCountOf(Pub.tbl, Pub.b, ix, iy, 1)
                                   + PALETTE[3][ch] * CellCountOf(Pub.tbl, Pub.b, ix, iy, 2)
                                   + PALETTE[4][ch] * CellCountOf(Pub.tbl, Pub.b, ix, iy, 3),
                                   tot)

(***************************************************************************)
(* C9.  A refresh whose extent query or binning query fails publishes      *)
(* nothing: the step in which it fails leaves cells as it was, a failed    *)
(* run stays failed, cells changes only in the step in which a run         *)
(* receives the answer of its binning query, and what observers then see   *)
(* is the whole grid rendered from that answer, every entry assigned.      *)
(***************************************************************************)
RunFailsInStep(r) ==
    /\ r \in DOMAIN runs
    /\ runs[r].pc \in {"extent", "binning"}
    /\ runs'[r].pc = "failed"

C9_FailedRefreshPublishesNothing ==
    /\ [][\A r \in DOMAIN runs :
             /\ RunFailsInStep(r) => (cells' = cells /\ pubRun' = pubRun)
             /\ runs[r].pc = "failed" => runs'[r].pc = "failed"]_vars
    /\ [][cells' # cells =>
             \E r \in DOMAIN runs :
                /\ runs[r].pc = "binning" /\ runs'[r].pc = "done"
                /\ pubRun' = r
                /\ cells' = Render(Accumulate(runs'[r].rows))]_vars
    /\ [](cells # NoCells =>
             /\ DOMAIN cells = 1 .. W * H
             /\ \A i \in DOMAIN cells : cells[i] # Placeholder)

\* A run has failed at its binning query after an earlier run published a
\* grid, which is still the one shown.
C9_Witness ==
    /\ pubRun # 0
    /\ cells = Render(Accumulate(Pub.rows))
    /\ \E i \in DOMAIN cells : cells[i] # Transparent
    /\ \E r \in DOMAIN runs :
          r > pubRun /\ runs[r].pc = "failed" /\ ~runs[r].b.null

(***************************************************************************)
(* C10.  As claimed: whenever the point source fails during a refresh (a   *)
(* query of GridMap is rejected, or a request of loadData is rejected)     *)
(* the status exposed to the caller becomes "error".                       *)
(***************************************************************************)
LoadFailsInStep(l) ==
    /\ l \in DOMAIN loads
    /\ loads[l].pc \in {"drop", "insert", "eos", "count"}
    /\ loads'[l].pc = "failed"

C10_SourceFailureSetsErrorStatus ==
    [][((\E r \in DOMAIN runs : RunFailsInStep(r))
          \/ (\E l \in DOMAIN loads : LoadFailsInStep(l)))
        => status' = "error"]_vars

(***************************************************************************)
(* Concurrency of refreshes and of the store.                              *)
(***************************************************************************)
\* A refresh is in flight from the extent query it sends until it publishes
\* or one of its queries is rejected.
InFlight(r) == runs[r].pc \in {"extent", "binning"}

\* C11: at most one refresh is in flight at any time: no run of the refresh
\* effect sends its extent query while an earlier run has neither published
\* nor failed, whatever changes of conn, status and lastResult occur.
C11_AtMostOneRefreshInFlight ==
    \A r1 \in DOMAIN runs : \A r2 \in DOMAIN runs :
        (InFlight(r1) /\ InFlight(r2)) => r1 = r2

FinitePoint(p) == IsFinite(p.x) /\ IsFinite(p.y)
FinitePart(tbl) == SelectSeq(tbl, FinitePoint)

\* C12: a point with a non-finite coordinate is dropped without aborting
\* the refresh: the extent a refresh obtains is that of the points with
\* finite coordinates, the binning query built from it can be answered, and
\* the rows a refresh publishes from are those of the finite points alone.
C12_NonFinitePointDropped ==
    \A r \in DOMAIN runs :
        LET fin == FinitePart(db[runs[r].conn].rows)
        IN  /\ runs[r].pc \in {"binning", "done"} => runs[r].b = ExtentQuery(fin)
            /\ runs[r].pc = "binning" => ValidSql(runs[r].b)
            /\ runs[r].pc = "done" => runs[r].rows = BinningQuery(fin, ExtentQuery(fin))

(***************************************************************************)
(* Aggregation arrays and shading.                                         *)
(***************************************************************************)
\* The sum of the Stride counters counts[idx * 4 .. idx * 4 + 3] of a cell.
SumCounts(acc, idx) ==
    acc.counts[idx * Stride + 1] + acc.counts[idx * Stride + 2]
        + acc.counts[idx * Stride + 3] + acc.counts[idx * Stride + 4]

\* C13: after the aggregation of the rows of a refresh, the per-category
\* counters of every cell sum to at most the cell's total, and the
\* shortfall is exactly the number of the cell's points of category >= K.
C13_CountsSumWithinTotal ==
    pubRun # 0 =>
        LET acc == Accumulate(Pub.rows)
        IN  \A ix \in 0 .. W - 1, iy \in 0 .. H - 1 :
              LET idx == CellIndex(ix, iy)
              IN  /\ SumCounts(acc, idx) <= acc.totals[idx + 1]
                  /\ acc.totals[idx + 1] - SumCounts(acc, idx)
                        = Cardinality({i \in PointsOfCell(Pub.tbl, Pub.b, ix, iy) :
                                          Pub.tbl[i].cat >= K})

(***************************************************************************)
(* Degenerate extents and the binning query.                               *)
(***************************************************************************)
\* The binning query of run r is among the requests its worker holds.
BinningSent(q, rs, r) ==
    \E k \in DOMAIN q[rs[r].conn] : q[rs[r].conn][k] = [kind |-> "run", id |-> r]

\* C14 as stated: a refresh whose extent is undefined or degenerate never
\* invokes the binning query.
C14_DegenerateNeverBins ==
    \A r \in DOMAIN runs :
        (runs[r].pc = "binning" /\ BinningSent(queue, runs, r)) => NonDegenerate(runs[r].b)

\* C14 as amended: a refresh whose extent query answers with an undefined
\* or degenerate extent publishes nothing at that step and sends the
\* binning query all the same; when that query is answered the refresh
\* publishes the all-empty grid and shows "done".
C14_DegenerateBinsToEmptyGrid ==
    [][\A r \in DOMAIN runs :
          /\ (runs[r].pc = "extent" /\ runs'[r].pc \notin {"extent", "failed"}
                 /\ ~NonDegenerate(runs'[r].b))
                => /\ runs'[r].pc = "binning"
                   /\ BinningSent(queue', runs', r)
                   /\ phase' = "binning"
                   /\ cells' = cells
          /\ (runs[r].pc = "binning" /\ ~NonDegenerate(runs[r].b)
                 /\ runs'[r].pc = "done")
                => /\ cells' = [i \in 1 .. W * H |-> Transparent]
                   /\ phase' = "done"
                   /\ pubRun' = r]_vars

\* A refresh that obtained NULL extents from an empty table and whose
\* binning query is waiting to be answered.
C14_Witness ==
    \E r \in DOMAIN runs :
        /\ runs[r].pc = "binning"
        /\ runs[r].b.null
        /\ BinningSent(queue, runs, r)

\* The cells (0-based) of the render loop that reach the shade formula:
\* those the test "tot === 0" does not skip.
ShadedCells(acc) == {i \in 0 .. W * H - 1 : acc.totals[i + 1] # 0}

\* C15: whenever the shade is evaluated for a cell of a published grid,
\* 0 < total <= maxTot, and maxTot is the largest total over all the cells
\* of that grid (the largest number of accepted points in one cell); a
\* maxTot of 0 never reaches the shade formula.
C15_ShadeArgumentsInRange ==
    pubRun # 0 =>
        LET acc == Accumulate(Pub.rows)
        IN  \A i \in ShadedCells(acc) :
              /\ 0 < acc.totals[i + 1]
              /\ acc.totals[i + 1] <= acc.maxTot
              /\ acc.maxTot # 0
              /\ acc.maxTot = SetMax({acc.totals[k] : k \in 1 .. W * H})
              /\ acc.maxTot = MaxTotalOf(Pub.tbl, Pub.b)

\* A published grid with two shaded cells, one of which holds points of two
\* categories and more points than the other.
C15_Witness ==
    /\ pubRun # 0
    /\ LET acc == Accumulate(Pub.rows)
       IN  /\ \E i \in ShadedCells(acc) : acc.totals[i + 1] < acc.maxTot
           /\ \E k \in DOMAIN Pub.rows : Pub.rows[k].n < Pub.rows[k].n_total

(***************************************************************************)
(* The phase shown by GridMap.                                             *)
(***************************************************************************)
\* The steps the phase may take: a refresh cycle begins at "computing
\* extents" (or returns to "waiting for data" when there is no data), and
\* within the cycle the phase moves to "binning" and then to "done".
PhaseStep(p, q) ==
    \/ q = "waiting for data"
    \/ q = "computing extents"
    \/ p = "computing extents" /\ q = "binning"
    \/ p = "binning" /\ q = "done"

\* C16: the phase advances only forward through waiting -> computing
\* extents -> binning -> done within a refresh cycle and leaves "done" only
\* when a new cycle begins, and "done" is shown only together with the grid
\* of the cycle that reached it.
C16_PhaseAdvancesForward ==
    /\ [][phase' # phase => PhaseStep(phase, phase')]_vars
    /\ [][(phase' = "done" /\ phase # "done") =>
             /\ pubRun' # 0
             /\ runs'[pubRun'].pc = "done"
             /\ cells' = Render(Accumulate(runs'[pubRun'].rows))]_vars

(***************************************************************************)
(* Refreshes against reloads of the table.                                 *)
(***************************************************************************)
\* C17: within one refresh the extent used to bin the points is the extent
\* of the table contents that the binning query reads: no loadData takes
\* effect between the extent query and the binning query of a refresh.
C17_ExtentOfTheTableBinned ==
    \A r \in DOMAIN runs :
        runs[r].pc = "done" => runs[r].b = ExtentQuery(runs[r].tbl)

\* C18: the published cells are those of the most recently started refresh
\* among the refreshes that have published: a refresh started earlier never
\* overwrites the grid published by a refresh started later, so once every
\* started refresh has completed the grid shown is that of the latest one
\* that succeeded.
C18_LatestRefreshWins ==
    \A r \in DOMAIN runs : runs[r].pc = "done" => pubRun >= r

(***************************************************************************)
(* start() and stop().                                                     *)
(***************************************************************************)
\* C19: at most one initDuckDB call made by start() is in flight at any
\* time, under every interleaving of start() and stop(); and so the store
\* holds every connection that start() created and that has not been closed:
\* none was overwritten or left open.
C19_OneInitialisationInFlight ==
    /\ inits <= 1
    /\ \A c \in 1 .. nConn : db[c].open => conn = c

\* C20: in every reachable state of the store, status = "ready" implies a
\* connection is set, and a connection being set implies status = "ready".
C20_ReadyIffConnected ==
    /\ status = "ready" => conn # NoConn
    /\ conn # NoConn => status = "ready"

=============================================================================
